---- MODULE Spec2Model ----
(***************************************************************************)
(* Metronome: the concurrent conversion pipeline (src/metronome.py,        *)
(* src/libs/convert.py) and the dependency bootstrap (download / extract,  *)
(* src/metronome.py and src/libs/deps.py).                                 *)
(*                                                                         *)
(* Strings are sequences of tokens: a token is a run of characters that    *)
(* the code never looks inside ("ffmpeg", "1000000") or one of the         *)
(* characters it does look for (".", "=", "/", "\n").  A path is a         *)
(* sequence of segments, each segment a string.                            *)
(***************************************************************************)
EXTENDS Integers, Sequences, FiniteSets, TLC

\* ------------------------------------------------------------------ bounds
\* Largest number of files discovery returns in the dispatch-loop model.
MaxFiles == 3
\* Largest number of output lines one transcoder emits in the dispatch-loop model.
MaxLines == 1
\* Largest number of output lines the transcoder emits in the single-task model.
MaxRunnerLines == 3

\* ------------------------------------------------------- string primitives
Dot == "."
Eq == "="
Newline == "\n"

RECURSIVE IndexFrom(_, _, _)
\* str.find from position i (1-based); 0 when the token does not occur.
IndexFrom(s, tok, i) ==
    IF i > Len(s) THEN 0
    ELSE IF s[i] = tok THEN i
    ELSE IndexFrom(s, tok, i + 1)

RECURSIVE LastIndex(_, _, _)
\* str.rfind scanning down from position i (1-based); 0 when absent.
LastIndex(s, tok, i) ==
    IF i < 1 THEN 0
    ELSE IF s[i] = tok THEN i
    ELSE LastIndex(s, tok, i - 1)

\* str.startswith
StartsWith(s, prefix) ==
    /\ Len(prefix) <= Len(s)
    /\ SubSeq(s, 1, Len(prefix)) = prefix

\* `tok in s` for a one-token needle
Contains(s, tok) == \E i \in 1..Len(s) : s[i] = tok

RECURSIVE SplitOn(_, _)
\* str.split(sep): every occurrence of sep cuts the string.
SplitOn(s, sep) ==
    LET i == IndexFrom(s, sep, 1)
    IN  IF i = 0 THEN <<s>>
        ELSE <<SubSeq(s, 1, i - 1)>> \o SplitOn(SubSeq(s, i + 1, Len(s)), sep)

\* os.path.splitext(name)[0]: cut at the last dot unless it leads the name.
SplitExtRoot(name) ==
    LET i == LastIndex(name, Dot, Len(name))
    IN  IF i > 1 /\ (\E j \in 1..(i - 1) : name[j] /= Dot)
        THEN SubSeq(name, 1, i - 1)
        ELSE name

\* pathlib PurePath.suffix: from the last dot, unless it is first or last.
Suffix(name) ==
    LET i == LastIndex(name, Dot, Len(name))
    IN  IF 1 < i /\ i < Len(name) THEN SubSeq(name, i, Len(name)) ELSE <<>>

\* pathlib PurePath.stem
Stem(name) ==
    LET i == LastIndex(name, Dot, Len(name))
    IN  IF 1 < i /\ i < Len(name) THEN SubSeq(name, 1, i - 1) ELSE name

\* str.replace(old, new): every non-overlapping occurrence, left to right.
RECURSIVE ReplaceAll(_, _, _)
ReplaceAll(s, old, new) ==
    IF Len(s) = 0 \/ Len(old) = 0 THEN s
    ELSE IF StartsWith(s, old)
    THEN new \o ReplaceAll(SubSeq(s, Len(old) + 1, Len(s)), old, new)
    ELSE <<Head(s)>> \o ReplaceAll(Tail(s), old, new)

\* ---------------------------------------------------------------- paths
Sep == "/"

\* os.path.join(a, b) for a relative b
Join(a, b) == a \o <<Sep>> \o b

\* Path(p).name: what follows the last separator
PathName(p) == SubSeq(p, LastIndex(p, Sep, Len(p)) + 1, Len(p))

\* Path(p).parent: what precedes the last separator
Parent(p) ==
    LET i == LastIndex(p, Sep, Len(p))
    IN  IF i <= 1 THEN SubSeq(p, 1, i) ELSE SubSeq(p, 1, i - 1)

\* os.getcwd()
current_working_dir == <<Sep, "cwd">>

\* metronome_settings["input"] / ["output"] after make_dir made them absolute
InputDir == Join(current_working_dir, <<"input">>)
OutputDir == Join(current_working_dir, <<"output">>)

\* ------------------------------------------------------ the program's state
VARIABLES
    threads,        \* int(metronome_settings["threads"])
    convert,        \* metronome_settings["convert"] after the --all override
    variant,        \* which ffmpeg() runs: "mono" (metronome.py) or "lib" (libs/convert.py)
    files,          \* the list file discovery built
    fsFiles,        \* paths of the files that exist under the output root
    fsDirs,         \* paths of the directories that exist under the output root
    mpc,            \* where the main thread is
    idx,            \* enumerate(files, 1): position of the file the loop is at
    queue,          \* Queue(threads): the items put and not yet got
    unfinished,     \* Queue.unfinished_tasks
    convert_count,  \* convert_count
    thread_list,    \* positions of the files whose thread has been started
    wpc,            \* where each file's worker thread is
    rc,             \* exit status of each file's transcoder process, -1 before it exits
    result,         \* what each worker's ffmpeg() returned, 0 before it returns
    progress_n,     \* progress.n of each worker's bar
    status,         \* the status dict of each worker
    linesLeft,      \* lines each transcoder has yet to write
    run,            \* "first" or "second" run of the program on these directories
    spawned,        \* transcoder processes spawned in this run
    vocab,          \* the lines a transcoder may write in this model
    lineBudget      \* the most lines one transcoder writes in this model

batchVars ==
    <<threads, convert, variant, files, fsFiles, fsDirs, mpc, idx, queue,
      unfinished, convert_count, thread_list, wpc, rc, result, progress_n,
      status, linesLeft, run, spawned, vocab, lineBudget>>

VARIABLES
    dl_pc,          \* where download() is: "idle", "get", "stream", "done"
    dl_checksum,    \* the checksum argument: <<>> for None, <<d>> for a digest
    dl_header,      \* the Content-Length header: <<>> when absent, <<n>> for n
    dl_size,        \* file_size
    dl_file,        \* file: the bytes received so far
    dl_n,           \* file_progress_bar.n
    dl_result,      \* how download() ended
    dl_returned,    \* the bytes download() returned
    dl_message      \* the digests the checksum error names

downloadVars ==
    <<dl_pc, dl_checksum, dl_header, dl_size, dl_file, dl_n, dl_result,
      dl_returned, dl_message>>

VARIABLES
    ex_pc,          \* where extract() is: "idle", "sniff", "loop", "done"
    ex_type,        \* file_type: what magic.from_buffer reports
    ex_entries,     \* the members of the archive, in order
    ex_i,           \* position of the member the loop is at
    ex_links,       \* names in out_path that are symbolic links leading outside
    ex_written,     \* the paths extract() has opened for writing
    ex_exec,        \* the paths extract() has set the executable bit on
    ex_result       \* how extract() ended

extractVars ==
    <<ex_pc, ex_type, ex_entries, ex_i, ex_links, ex_written, ex_exec,
      ex_result>>

provisionVars == <<downloadVars, extractVars>>

VARIABLES
    analyze,        \* metronome_settings["analyze"] after the --all override
    have,           \* the tools shutil.which or bin_location already holds
    tool,           \* the tool whose block of the startup code is being run
    provisions,     \* how often each tool's download has been started
    outcome         \* how each tool's block ended

startupVars == <<analyze, have, tool, provisions, outcome>>

VARIABLES
    ps_fn,          \* the path-safety function called
    ps_name,        \* filename: the argument of is_safe_filename
    ps_base,        \* base_dir: the first argument of is_safe_path
    ps_path,        \* path: the second argument of is_safe_path
    ps_done,        \* the call has returned
    ps_result       \* what it returned

safetyVars == <<ps_fn, ps_name, ps_base, ps_path, ps_done, ps_result>>

VARIABLES
    system,         \* platform.system()
    req_input,      \* metronome_settings["input"] as given on the command line
    req_output,     \* metronome_settings["output"] as given on the command line
    made            \* the directories make_dir has created

bootVars == <<system, req_input, req_output, made>>

VARIABLES
    globbed,        \* what glob returned
    gidx            \* position of the candidate the discovery loop is at

discoveryVars == <<globbed, gidx>>

setupVars == <<bootVars, discoveryVars>>

\* ----------------------------------------------------------- file discovery
\* What glob(<input>/**/*.flac) can return, in the order it returns it.
Discoverable ==
    << Join(InputDir, <<"a", Dot, "flac">>),
       Join(InputDir, <<"b", Dot, "flac">>),
       Join(Join(InputDir, <<"sub">>), <<"a", Dot, "flac">>),
       Join(Join(InputDir, <<"sub">>), <<"b", Dot, "flac">>) >>

\* ------------------------------------------------------------ destinations
\* The value `metronome_settings["convert"] = True` stores under --all.
SettingTrue == "<True>"

\* The settings value as an f-string formats it: "True" for the boolean.
FormatStr(c) == IF c = SettingTrue THEN "True" ELSE c

\* file_out = Path(file.replace(input, output))
file_out(file) == ReplaceAll(file, InputDir, OutputDir)

\* file_out_name = f"{file.stem}.{output_ext}"
file_out_name(file, c) == Stem(PathName(file)) \o <<Dot, FormatStr(c)>>

\* The path the dispatch loop tests before it dispatches.
CheckedPath(file, c) == Join(Parent(file_out(file)), file_out_name(file, c))

\* The extension ffmpeg() appends: opus for "opus", mp3 for every other value.
CodecExt(c) == IF c = "opus" THEN "opus" ELSE "mp3"

\* The last argument of ffmpeg_command: the path the transcoder writes.
WrittenPath(file, c) ==
    Join(Parent(file_out(file)),
         SplitExtRoot(file_out_name(file, c)) \o <<Dot, CodecExt(c)>>)

\* ------------------------------------------------- the progress stream
MicrosPerSecond == 1000000

\* The decimal numerals the transcoder writes, with the number each denotes.
Numerals ==
    { [tok |-> "0", us |-> 0], [tok |-> "500000", us |-> 500000],
      [tok |-> "1000000", us |-> 1000000], [tok |-> "1500000", us |-> 1500000],
      [tok |-> "2000000", us |-> 2000000], [tok |-> "2500000", us |-> 2500000] }

RECURSIVE Strip(_)
\* str.strip(): float() ignores the white space around its argument.
Strip(s) ==
    IF Len(s) > 0 /\ Head(s) = Newline THEN Strip(Tail(s))
    ELSE IF Len(s) > 0 /\ s[Len(s)] = Newline THEN Strip(SubSeq(s, 1, Len(s) - 1))
    ELSE s

\* float(s) succeeds: s is one numeral, white space aside.
IsFloat(s) == Len(Strip(s)) = 1 /\ \E n \in Numerals : n.tok = Strip(s)[1]

\* float(s), in microseconds
FloatOf(s) == (CHOOSE n \in Numerals : n.tok = Strip(s)[1]).us

\* round(x / 1000000): Python rounds a half to the even neighbour.
RoundSeconds(us) ==
    LET q == us \div MicrosPerSecond
        r == us % MicrosPerSecond
    IN  IF 2 * r < MicrosPerSecond THEN q
        ELSE IF 2 * r > MicrosPerSecond THEN q + 1
        ELSE IF q % 2 = 0 THEN q ELSE q + 1

OutTimeKey == <<"out_time_us">>

\* Every line the transcoder may write on its merged output.
ProgressLines ==
    { <<"out_time_us", Eq, "1000000", Newline>>,
      <<"out_time_us", Eq, "2000000", Newline>>,
      <<"out_time_us", Eq, "1500000", Newline>>,
      <<"out_time_us", Eq, "N/A", Newline>>,
      <<"progress", Eq, "continue", Newline>>,
      <<"progress", Eq, "out_time_us", Newline>>,
      <<"speed", Eq, "out_time_us", Eq, "1000000", Newline>>,
      <<"Conversion failed!", Newline>> }

\* The lines the dispatch-loop model draws from: a time, and the placeholder.
BatchLines ==
    { <<"out_time_us", Eq, "1000000", Newline>>,
      <<"out_time_us", Eq, "N/A", Newline>> }

\* status.update({key: value})
DictUpdate(d, key, value) ==
    [k \in DOMAIN d \cup {key} |-> IF k = key THEN value ELSE d[k]]

EmptyDict == [k \in {} |-> <<>>]

\* `"out_time_us" in stat`: some element of the list is that string.
InList(stat, s) == \E j \in 1..Len(stat) : stat[j] = s

\* The `if` that guards the progress update.
UpdatesProgress(v, stat) ==
    IF v = "lib"
    THEN InList(stat, OutTimeKey) /\ ~Contains(stat[2], "N/A")
    ELSE InList(stat, OutTimeKey)

\* The body of `for line in process.stdout` on one line, for a worker whose
\* dict is d and whose bar shows n: the new dict, the new bar value, and
\* whether the line raised (KeyError, ValueError).
OnLine(v, d, n, line) ==
    LET stat == SplitOn(line, Eq)
    IN  IF Len(stat) < 2
        THEN [status |-> d, n |-> n, raised |-> FALSE]
        ELSE
            LET d2 == DictUpdate(d, stat[1], stat[2])
            IN  IF ~UpdatesProgress(v, stat)
                THEN [status |-> d2, n |-> n, raised |-> FALSE]
                ELSE IF OutTimeKey \notin DOMAIN d2 \/ ~IsFloat(d2[OutTimeKey])
                THEN [status |-> d2, n |-> n, raised |-> TRUE]
                ELSE [status |-> d2,
                      n |-> n + (RoundSeconds(FloatOf(d2[OutTimeKey])) - n),
                      raised |-> FALSE]

\* ================================================================ download
\* Longest body, in blocks, a server sends in the download model.
MaxBody == 3
\* Number of values the model's digest takes.
DigestRange == 3

\* The byte values of the model.
Bytes == {0, 1}

RECURSIVE WeightedSum(_, _)
WeightedSum(s, i) ==
    IF i > Len(s) THEN 0 ELSE i * (s[i] + 1) + WeightedSum(s, i + 1)

\* hashlib.sha256(file).hexdigest(): a digest over a small range, so that
\* different contents can share one.
Sha256Hex(s) == <<(Len(s) + WeightedSum(s, 1)) % DigestRange>>

\* The arguments a caller can pass as checksum: None, or a hex digest.
ChecksumArgs == {<<>>} \cup {<<d>> : d \in 0..(DigestRange - 1)}

\* A check that is skipped when no checksum is given.
ChecksumRejected_SkipsNone(calculated, checksum) ==
    checksum /= <<>> /\ calculated /= checksum

\* `if calculated_checksum != checksum: raise`
ChecksumRejected(calculated, checksum) == calculated /= checksum

\* `if file_size != 0 and file_progress_bar.n != file_size: raise`
SizeRejected(file_size, n) == file_size /= 0 /\ n /= file_size

\* The Content-Length headers a response can carry.
ContentLengths == {<<>>} \cup {<<n>> : n \in 0..MaxBody}

\* int(file_request.headers.get("Content-Length", 0))
HeaderSize(header) == IF header = <<>> THEN 0 ELSE header[1]

\* requests.get(url, stream=True); raise_for_status(); the header is read.
Request ==
    /\ dl_pc = "get"
    /\ \/ /\ dl_pc' = "done"
          /\ dl_result' = "DownloadError"
          /\ UNCHANGED <<dl_header, dl_size>>
       \/ /\ dl_pc' = "stream"
          /\ dl_result' = dl_result
          /\ dl_header' \in ContentLengths
          /\ dl_size' = HeaderSize(dl_header')
    /\ UNCHANGED <<dl_checksum, dl_file, dl_n, dl_returned, dl_message>>
    /\ UNCHANGED <<batchVars, extractVars, startupVars, safetyVars, setupVars>>

\* One pass of `for block in file_request.iter_content(1024)`.
RecvBlock ==
    /\ dl_pc = "stream"
    /\ Len(dl_file) < MaxBody
    /\ \E b \in Bytes :
        /\ dl_file' = Append(dl_file, b)
        /\ dl_n' = dl_n + 1
    /\ UNCHANGED <<dl_pc, dl_checksum, dl_header, dl_size, dl_result,
                   dl_returned, dl_message>>
    /\ UNCHANGED <<batchVars, extractVars, startupVars, safetyVars, setupVars>>

\* The connection breaks while the body is read: iter_content raises.
StreamBroken ==
    /\ dl_pc = "stream"
    /\ dl_pc' = "done"
    /\ dl_result' = "TransportError"
    /\ UNCHANGED <<dl_checksum, dl_header, dl_size, dl_file, dl_n,
                   dl_returned, dl_message>>
    /\ UNCHANGED <<batchVars, extractVars, startupVars, safetyVars, setupVars>>

\* The body ends: the size check, the checksum check, the return.
Finish ==
    /\ dl_pc = "stream"
    /\ dl_pc' = "done"
    /\ IF SizeRejected(dl_size, dl_n)
       THEN /\ dl_result' = "SizeMismatch"
            /\ UNCHANGED <<dl_returned, dl_message>>
       ELSE IF ChecksumRejected(Sha256Hex(dl_file), dl_checksum)
       THEN /\ dl_result' = "ChecksumMismatch"
            /\ dl_message' = [expected |-> dl_checksum, found |-> Sha256Hex(dl_file)]
            /\ UNCHANGED dl_returned
       ELSE /\ dl_result' = "bytes"
            /\ dl_returned' = dl_file
            /\ UNCHANGED dl_message
    /\ UNCHANGED <<dl_checksum, dl_header, dl_size, dl_file, dl_n>>
    /\ UNCHANGED <<batchVars, extractVars, startupVars, safetyVars, setupVars>>

NoMessage == [expected |-> <<>>, found |-> <<>>]

\* download(url, checksum) has been called with some checksum argument.
InitDownloadCall ==
    /\ dl_pc = "get"
    /\ dl_checksum \in ChecksumArgs
    /\ dl_header = <<>>
    /\ dl_size = 0
    /\ dl_file = <<>>
    /\ dl_n = 0
    /\ dl_result = "none"
    /\ dl_returned = <<>>
    /\ dl_message = NoMessage

\* download() is not running.
DownloadIdle ==
    /\ dl_pc = "idle"
    /\ dl_checksum = <<>>
    /\ dl_header = <<>>
    /\ dl_size = 0
    /\ dl_file = <<>>
    /\ dl_n = 0
    /\ dl_result = "none"
    /\ dl_returned = <<>>
    /\ dl_message = NoMessage

NextDownload ==
    \/ Request
    \/ RecvBlock
    \/ StreamBroken
    \/ Finish

\* ================================================================= extract
\* Longest archive, in entries, of the extract model.
MaxEntries == 2

\* bin_location = Path(os.getcwd(), "bin")
bin_location == Join(current_working_dir, <<"bin">>)

\* The needles of the two call sites.
NeedlesOf(t) ==
    IF t = "chromaprint" THEN {<<"fpcalc">>} ELSE {<<"ffmpeg">>, <<"ffprobe">>}

\* needles: those of the tool being provisioned
Needles == NeedlesOf(tool)

\* Where a symbolic link of ex_links leads.
LinkTarget == <<Sep, "etc", Sep, "target">>

DotDot == <<Dot, Dot>>

\* The segments of a path: the parts between separators, empty ones dropped.
Segments(p) == SelectSeq(SplitOn(p, Sep), LAMBDA seg : seg /= <<>>)

RECURSIVE Normalize(_, _)
\* The segments of segs after acc with "." dropped and ".." applied.
Normalize(acc, segs) ==
    IF segs = <<>> THEN acc
    ELSE IF Head(segs) = <<Dot>> THEN Normalize(acc, Tail(segs))
    ELSE IF Head(segs) = DotDot
    THEN Normalize(IF acc = <<>> THEN acc ELSE SubSeq(acc, 1, Len(acc) - 1),
                   Tail(segs))
    ELSE Normalize(Append(acc, Head(segs)), Tail(segs))

RECURSIVE Unsplit(_)
\* The absolute path with the given segments.
Unsplit(segs) ==
    IF segs = <<>> THEN <<>>
    ELSE <<Sep>> \o Head(segs) \o Unsplit(Tail(segs))

\* Path.resolve() of an absolute path: ".." applied, and a symbolic link at
\* the path followed.
Resolve(p, links) ==
    LET q == Unsplit(Normalize(<<>>, Segments(p)))
    IN  IF q \in links THEN LinkTarget ELSE q

\* The resolved target, returned without the prefix test.
safe_extract_path_Unchecked(base_dir, target_path, links) ==
    Resolve(Join(base_dir, PathName(target_path)), links)

\* safe_extract_path: the resolved target, or <<>> when it raises ValueError.
safe_extract_path(base_dir, target_path, links) ==
    LET abs_target == Resolve(Join(base_dir, PathName(target_path)), links)
    IN  IF ~StartsWith(abs_target, Resolve(base_dir, links) \o <<Sep>>)
        THEN <<>>
        ELSE abs_target

\* "".join(file_path.suffixes): from the first dot after the leading dots,
\* empty when the name ends with a dot.
RECURSIVE LStripDots(_)
LStripDots(name) ==
    IF Len(name) > 0 /\ Head(name) = Dot THEN LStripDots(Tail(name)) ELSE name

JoinedSuffixes(name) ==
    IF Len(name) > 0 /\ name[Len(name)] = Dot THEN <<>>
    ELSE LET n == LStripDots(name)
             i == IndexFrom(n, Dot, 1)
         IN  IF i = 0 THEN <<>> ELSE SubSeq(n, i, Len(n))

\* The tar branch's two tests on a member.
TarSelects(path) ==
    /\ JoinedSuffixes(PathName(path)) \in {<<>>, <<"exe">>}
    /\ Stem(PathName(path)) \in Needles

\* The zip branch's test on a member.
ZipSelects(path) ==
    /\ Stem(PathName(path)) \in Needles
    /\ Suffix(PathName(path)) \in {<<>>, <<Dot, "exe">>}

IsTar(t) == t = "application/x-xz" \/ t = "application/gzip"
\* A zip test that takes every type that is not of the tar family.
IsZip_OrUnknown(t) == t \notin {"application/x-xz", "application/gzip"}

IsZip(t) == t = "application/zip"

Selects(t, path) == IF IsTar(t) THEN TarSelects(path) ELSE ZipSelects(path)

\* file_type = magic.from_buffer(...); the branch is chosen, or False returned.
Sniff ==
    /\ ex_pc = "sniff"
    /\ IF IsTar(ex_type) \/ IsZip(ex_type)
       THEN /\ ex_pc' = "loop"
            /\ ex_result' = ex_result
       ELSE /\ ex_pc' = "done"
            /\ ex_result' = "False"
    /\ UNCHANGED <<ex_type, ex_entries, ex_i, ex_links, ex_written, ex_exec>>
    /\ UNCHANGED <<batchVars, downloadVars, startupVars, safetyVars, setupVars>>

\* sys.platform on the host whose platform.system() is sys
SysPlatform(sys) ==
    IF sys = "Linux" THEN "linux"
    ELSE IF sys = "Windows" THEN "win32"
    ELSE "darwin"

\* The test before os.fchmod: `system == "Linux"` in metronome.py, with
\* system = platform.system(); `platform == "Linux"` in libs/deps.py, with
\* platform imported from sys.
ChmodPlatform(v, sys) ==
    IF v = "lib" THEN SysPlatform(sys) = "Linux" ELSE sys = "Linux"

\* What tar.extractfile(member) can be: the bytes of a regular member
\* (TRUE), or None for a member of another kind (FALSE); a zip member
\* always has bytes.
HasBytes(t) == IF IsTar(t) THEN BOOLEAN ELSE {TRUE}

\* One pass of the loop over the members, in the tar or the zip branch: the
\* member is passed over, or its target is checked and opened for writing,
\* written, and made executable on Linux.
ExtractEntry ==
    /\ ex_pc = "loop"
    /\ ex_i <= Len(ex_entries)
    /\ LET path == ex_entries[ex_i]
           safe_path == safe_extract_path(bin_location, path, ex_links)
       IN  IF ~Selects(ex_type, path)
           THEN /\ ex_i' = ex_i + 1
                /\ UNCHANGED <<ex_pc, ex_written, ex_exec, ex_result>>
           ELSE IF safe_path = <<>>
           THEN /\ ex_pc' = "done"
                /\ ex_result' = "PathTraversal"
                /\ UNCHANGED <<ex_i, ex_written, ex_exec>>
           ELSE /\ ex_written' = ex_written \cup {safe_path}
                /\ \E bytes \in HasBytes(ex_type) :
                      ex_exec' = IF bytes /\ ChmodPlatform(variant, system)
                                 THEN ex_exec \cup {safe_path}
                                 ELSE ex_exec
                /\ ex_i' = ex_i + 1
                /\ UNCHANGED <<ex_pc, ex_result>>
    /\ UNCHANGED <<ex_type, ex_entries, ex_links>>
    /\ UNCHANGED <<batchVars, downloadVars, startupVars, safetyVars, setupVars>>

\* The members are exhausted: return True.
ExtractReturn ==
    /\ ex_pc = "loop"
    /\ ex_i > Len(ex_entries)
    /\ ex_pc' = "done"
    /\ ex_result' = "True"
    /\ UNCHANGED <<ex_type, ex_entries, ex_i, ex_links, ex_written, ex_exec>>
    /\ UNCHANGED <<batchVars, downloadVars, startupVars, safetyVars, setupVars>>

\* The paths a member of an archive can have.
MemberPaths ==
    { <<"pkg", Sep, "ffmpeg">>,
      <<"pkg", Sep, "ffprobe">>,
      <<"pkg", Sep, "ffmpeg", Dot, "exe">>,
      <<"pkg", Sep, "ffmpeg", Dot, "txt">>,
      <<"pkg", Sep, "readme">>,
      <<"pkg", Sep, "fpcalc">>,
      <<Dot, Dot, Sep, Dot, Dot, Sep, "etc", Sep, "ffmpeg">>,
      <<Dot, Dot, Sep, Dot, Dot, Sep, "etc", Sep, "passwd">>,
      <<Sep, "etc", Sep, "ffprobe">> }

\* The archives of at most MaxEntries members.
Archives == UNION {[1..n -> MemberPaths] : n \in 0..MaxEntries}

\* extract(in_file, bin_location, ["ffmpeg", "ffprobe"]) has been called.
InitExtractCall ==
    /\ ex_pc = "sniff"
    /\ ex_type \in {"application/x-xz", "application/gzip", "application/zip",
                    "application/octet-stream"}
    /\ ex_entries \in Archives
    /\ ex_i = 1
    /\ ex_links \in SUBSET {Join(bin_location, <<"ffmpeg">>),
                            Join(bin_location, <<"ffprobe">>)}
    /\ ex_written = {}
    /\ ex_exec = {}
    /\ ex_result = "none"

\* extract() is not running.
ExtractIdle ==
    /\ ex_pc = "idle"
    /\ ex_type = "application/octet-stream"
    /\ ex_entries = <<>>
    /\ ex_i = 1
    /\ ex_links = {}
    /\ ex_written = {}
    /\ ex_exec = {}
    /\ ex_result = "none"

\* ============================================================= path safety
\* Longest filename, in characters, of the path-safety model.
MaxNameLen == 3

\* forbidden = '<>:"/\\|?*\0'
Forbidden == {"<", ">", ":", "\"", "/", "\\", "|", "?", "*", "NUL"}

\* The characters the filenames of the model are made of: forbidden ones,
\* the tabulator, the unit separator, the space, the dot, a letter, and the
\* delete character.
NameAlphabet == {"<", "*", "NUL", "TAB", "US", " ", ".", "a", "DEL"}

\* ord(char); a token that is none of the characters listed is made of
\* letters, and counts as one.
Ord(c) ==
    CASE c = "NUL" -> 0
      [] c = "TAB" -> 9
      [] c = "US" -> 31
      [] c = " " -> 32
      [] c = "\"" -> 34
      [] c = "*" -> 42
      [] c = "." -> 46
      [] c = "/" -> 47
      [] c = ":" -> 58
      [] c = "<" -> 60
      [] c = ">" -> 62
      [] c = "?" -> 63
      [] c = "\\" -> 92
      [] c = "a" -> 97
      [] c = "|" -> 124
      [] c = "DEL" -> 127
      [] OTHER -> 97

RECURSIVE StripChars(_, _)
\* str.strip(chars): the characters of chars removed from both ends.
StripChars(s, chars) ==
    IF Len(s) > 0 /\ Head(s) \in chars THEN StripChars(Tail(s), chars)
    ELSE IF Len(s) > 0 /\ s[Len(s)] \in chars
    THEN StripChars(SubSeq(s, 1, Len(s) - 1), chars)
    ELSE s

\* is_safe_filename(filename), a filename being a sequence of characters
is_safe_filename(filename) ==
    IF \E char \in Forbidden : Contains(filename, char) THEN FALSE
    ELSE IF \E i \in 1..Len(filename) : Ord(filename[i]) < 32 THEN FALSE
    ELSE IF StripChars(filename, {" ", "."}) /= filename THEN FALSE
    ELSE IF filename = <<>> THEN FALSE
    ELSE TRUE

\* The number of separators a path starts with.
RECURSIVE LeadingSeps(_)
LeadingSeps(p) ==
    IF Len(p) > 0 /\ Head(p) = Sep THEN 1 + LeadingSeps(Tail(p)) ELSE 0

\* os.path.normpath of an absolute path: empty and "." segments dropped,
\* ".." applied, exactly two leading separators kept as two.
NormPath(p) ==
    LET root == IF LeadingSeps(p) = 2 THEN <<Sep, Sep>> ELSE <<Sep>>
        segs == Normalize(<<>>, Segments(p))
    IN  IF segs = <<>> THEN root
        ELSE root \o Tail(Unsplit(segs))

\* os.path.abspath(path): joined to the working directory unless absolute,
\* then normalised; no link is followed.
AbsPath(path) ==
    IF Len(path) > 0 /\ Head(path) = Sep
    THEN NormPath(path)
    ELSE NormPath(Join(current_working_dir, path))

\* is_safe_path(base_dir, path)
is_safe_path(base_dir, path) ==
    LET abs_base == AbsPath(base_dir)
        abs_path == AbsPath(path)
    IN  StartsWith(abs_path, abs_base \o <<Sep>>) \/ abs_path = abs_base

\* The filenames of at most MaxNameLen characters.
Names == UNION {[1..n -> NameAlphabet] : n \in 0..MaxNameLen}

\* The base directories is_safe_path is called with.
BaseDirs ==
    { <<Sep>>,
      InputDir,
      InputDir \o <<Sep>>,
      <<"input">> }

\* The candidate paths is_safe_path is called with.
CandidatePaths ==
    { <<Sep>>,
      <<>>,
      <<Sep, "a", Dot, "flac">>,
      InputDir,
      Join(InputDir, <<"a", Dot, "flac">>),
      Join(current_working_dir, <<"input2", Sep, "f">>),
      Join(InputDir, <<Dot, Dot, Sep, "output", Sep, "f">>),
      Join(InputDir, <<"sub", Sep, Dot, Dot, Sep, "a", Dot, "flac">>),
      <<"input", Sep, "a", Dot, "flac">>,
      <<Dot, Dot, Sep, "a", Dot, "flac">>,
      <<Sep>> \o Join(InputDir, <<"a", Dot, "flac">>) }

\* is_safe_filename(os.path.basename(file)) is evaluated.
CheckFilename ==
    /\ ps_fn = "is_safe_filename"
    /\ ~ps_done
    /\ ps_done' = TRUE
    /\ ps_result' = is_safe_filename(ps_name)
    /\ UNCHANGED <<ps_fn, ps_name, ps_base, ps_path>>
    /\ UNCHANGED <<batchVars, provisionVars, startupVars, setupVars>>

\* is_safe_path(metronome_settings["input"], file) is evaluated.
CheckPath ==
    /\ ps_fn = "is_safe_path"
    /\ ~ps_done
    /\ ps_done' = TRUE
    /\ ps_result' = is_safe_path(ps_base, ps_path)
    /\ UNCHANGED <<ps_fn, ps_name, ps_base, ps_path>>
    /\ UNCHANGED <<batchVars, provisionVars, startupVars, setupVars>>

\* One of the two functions has been called with some arguments.
InitSafetyCall ==
    /\ ps_done = FALSE
    /\ ps_result = FALSE
    /\ \/ /\ ps_fn = "is_safe_filename"
          /\ ps_name \in Names
          /\ ps_base = <<>>
          /\ ps_path = <<>>
       \/ /\ ps_fn = "is_safe_path"
          /\ ps_name = <<>>
          /\ ps_base \in BaseDirs
          /\ ps_path \in CandidatePaths

\* The host is sys, the roots are the default ones, and neither the root
\* check nor discovery is running.
SetupIdleOn(sys) ==
    /\ system = sys
    /\ req_input = <<"input">>
    /\ req_output = <<"output">>
    /\ made = {}
    /\ globbed = <<>>
    /\ gidx = 1

SetupIdle == SetupIdleOn("Linux")

\* No path-safety function is being evaluated.
SafetyIdle ==
    /\ ps_fn = "none"
    /\ ps_name = <<>>
    /\ ps_base = <<>>
    /\ ps_path = <<>>
    /\ ps_done = FALSE
    /\ ps_result = FALSE

NextSafety ==
    \/ CheckFilename
    \/ CheckPath

\* ================================================================= startup
\* programs: the tools the startup block can fetch.
Tools == {"ffmpeg", "chromaprint"}

\* Nothing is being provisioned: every tool is installed already.
StartupIdle ==
    /\ analyze = FALSE
    /\ have = Tools
    /\ tool = "none"
    /\ provisions = [t \in Tools |-> 0]
    /\ outcome = [t \in Tools |-> "none"]

\* ------------------------------------------------------ the dispatch loop
Positions == 1..Len(files)

\* A put that never waits for a free slot.
CanPut_NeverBlocks(q, maxsize) == TRUE

\* Queue.put blocks while the queue is full; a maxsize <= 0 is never full.
CanPut(q, maxsize) == maxsize <= 0 \/ Len(q) < maxsize

\* A worker whose thread has ended, by returning or by an uncaught exception.
Ended(i) == wpc[i] \in {"done", "raised"}

\* A worker whose transcoder process has been spawned and has not exited.
TranscoderAlive(i) == wpc[i] \in {"reading", "unwind"}

workerVars == <<wpc, rc, result, progress_n, status, linesLeft>>
inputVars == <<threads, convert, variant, files, vocab, lineBudget, run>>

\* for index, file in enumerate(files, 1): the destination exists: continue
MainSkip ==
    /\ mpc = "check"
    /\ idx <= Len(files)
    /\ CheckedPath(files[idx], convert) \in fsFiles
    /\ wpc' = [wpc EXCEPT ![idx] = "skipped"]
    /\ idx' = idx + 1
    /\ UNCHANGED <<provisionVars, startupVars, safetyVars, setupVars>>
    /\ UNCHANGED <<inputVars, fsFiles, fsDirs, mpc, queue, unfinished,
                   convert_count, thread_list, rc, result, progress_n, status,
                   linesLeft, spawned>>

\* The destination is absent: os.makedirs when its directory is absent too,
\* which creates it or raises OSError out of the loop; then Thread(...).
MainPrepare ==
    /\ mpc = "check"
    /\ idx <= Len(files)
    /\ CheckedPath(files[idx], convert) \notin fsFiles
    /\ LET dir == Parent(file_out(files[idx]))
       IN  \/ /\ fsDirs' = fsDirs \cup {dir}
              /\ mpc' = "put"
           \/ /\ dir \notin fsDirs
              /\ fsDirs' = fsDirs
              /\ mpc' = "aborted"
    /\ UNCHANGED <<provisionVars, startupVars, safetyVars, setupVars>>
    /\ UNCHANGED <<inputVars, fsFiles, idx, queue, unfinished, convert_count,
                   thread_list, workerVars, spawned>>

\* queue.put(index), thread_list.append, thread.start(), convert_count + 1
MainPut ==
    /\ mpc = "put"
    /\ CanPut(queue, threads)
    /\ queue' = Append(queue, idx)
    /\ unfinished' = unfinished + 1
    /\ thread_list' = thread_list \cup {idx}
    /\ wpc' = [wpc EXCEPT ![idx] = "probe"]
    /\ convert_count' = convert_count + 1
    /\ idx' = idx + 1
    /\ mpc' = "check"
    /\ UNCHANGED <<provisionVars, startupVars, safetyVars, setupVars>>
    /\ UNCHANGED <<inputVars, fsFiles, fsDirs, rc, result, progress_n, status,
                   linesLeft, spawned>>

\* The for loop is exhausted.
MainLoopEnd ==
    /\ mpc = "check"
    /\ idx > Len(files)
    /\ mpc' = "join"
    /\ UNCHANGED <<provisionVars, startupVars, safetyVars, setupVars>>
    /\ UNCHANGED <<inputVars, fsFiles, fsDirs, idx, queue, unfinished,
                   convert_count, thread_list, workerVars, spawned>>

\* A report printed without waiting for the threads.
MainJoin_NoWait ==
    /\ mpc = "join"
    /\ mpc' = "reported"
    /\ UNCHANGED <<provisionVars, startupVars, safetyVars, setupVars>>
    /\ UNCHANGED <<inputVars, fsFiles, fsDirs, idx, queue, unfinished,
                   convert_count, thread_list, workerVars, spawned>>

\* [thread.join() for thread in thread_list]; print(convert_count)
MainJoin ==
    /\ mpc = "join"
    /\ \A i \in thread_list : Ended(i)
    /\ mpc' = "reported"
    /\ UNCHANGED <<provisionVars, startupVars, safetyVars, setupVars>>
    /\ UNCHANGED <<inputVars, fsFiles, fsDirs, idx, queue, unfinished,
                   convert_count, thread_list, workerVars, spawned>>

\* ------------------------------------------------------ a worker: ffmpeg()
\* ffprobe(in_file), the bar, Popen(ffmpeg_command). The probe's output
\* parses and the transcoder starts, or json.loads, the duration lookup or
\* Popen raises and the thread dies.
ProbeDone(i) ==
    /\ wpc[i] = "probe"
    /\ \/ /\ wpc' = [wpc EXCEPT ![i] = "reading"]
          /\ spawned' = spawned + 1
       \/ /\ wpc' = [wpc EXCEPT ![i] = "raised"]
          /\ spawned' = spawned
    /\ UNCHANGED <<provisionVars, startupVars, safetyVars, setupVars>>
    /\ UNCHANGED <<inputVars, fsFiles, fsDirs, mpc, idx, queue, unfinished,
                   convert_count, thread_list, rc, result, progress_n, status,
                   linesLeft>>

\* One pass of `for line in process.stdout`.
ReadLine(i) ==
    /\ wpc[i] = "reading"
    /\ linesLeft[i] > 0
    /\ \E line \in vocab :
        LET o == OnLine(variant, status[i], progress_n[i], line)
        IN  /\ status' = [status EXCEPT ![i] = o.status]
            /\ progress_n' = [progress_n EXCEPT ![i] = o.n]
            /\ wpc' = [wpc EXCEPT ![i] = IF o.raised THEN "unwind" ELSE "reading"]
    /\ linesLeft' = [linesLeft EXCEPT ![i] = linesLeft[i] - 1]
    /\ UNCHANGED <<provisionVars, startupVars, safetyVars, setupVars>>
    /\ UNCHANGED <<inputVars, fsFiles, fsDirs, mpc, idx, queue, unfinished,
                   convert_count, thread_list, rc, result, spawned>>

\* What the transcoder leaves at its output path when it exits with status c.
OutputsAfterExit(i, c) ==
    IF c = 0
    THEN {fsFiles \cup {WrittenPath(files[i], convert)}}
    ELSE {fsFiles, fsFiles \cup {WrittenPath(files[i], convert)}}

\* End of the output: Popen.__exit__ waits for the child, which exits with
\* some status; the bar is closed.
TranscoderExit(i) ==
    /\ wpc[i] = "reading"
    /\ \E c \in {0, 1} :
        /\ rc' = [rc EXCEPT ![i] = c]
        /\ fsFiles' \in OutputsAfterExit(i, c)
    /\ wpc' = [wpc EXCEPT ![i] = "closing"]
    /\ UNCHANGED <<provisionVars, startupVars, safetyVars, setupVars>>
    /\ UNCHANGED <<inputVars, fsDirs, mpc, idx, queue, unfinished,
                   convert_count, thread_list, result, progress_n, status,
                   linesLeft, spawned>>

\* An exception left the loop: Popen.__exit__ waits for the child, then the
\* exception leaves ffmpeg() and ends the thread.
UnwindExit(i) ==
    /\ wpc[i] = "unwind"
    /\ \E c \in {0, 1} :
        /\ rc' = [rc EXCEPT ![i] = c]
        /\ fsFiles' \in OutputsAfterExit(i, c)
    /\ wpc' = [wpc EXCEPT ![i] = "raised"]
    /\ UNCHANGED <<provisionVars, startupVars, safetyVars, setupVars>>
    /\ UNCHANGED <<inputVars, fsDirs, mpc, idx, queue, unfinished,
                   convert_count, thread_list, result, progress_n, status,
                   linesLeft, spawned>>

\* queue.task_done(): ValueError when called more often than put.
TaskDone(i) ==
    /\ wpc[i] = "closing"
    /\ IF unfinished > 0
       THEN /\ unfinished' = unfinished - 1
            /\ wpc' = [wpc EXCEPT ![i] = "get"]
       ELSE /\ unfinished' = unfinished
            /\ wpc' = [wpc EXCEPT ![i] = "raised"]
    /\ UNCHANGED <<provisionVars, startupVars, safetyVars, setupVars>>
    /\ UNCHANGED <<inputVars, fsFiles, fsDirs, mpc, idx, queue, convert_count,
                   thread_list, rc, result, progress_n, status, linesLeft,
                   spawned>>

\* A get that empties the queue.
QueueGet_TakesAll(i) ==
    /\ wpc[i] = "get"
    /\ Len(queue) > 0
    /\ result' = [result EXCEPT ![i] = Head(queue)]
    /\ queue' = <<>>
    /\ wpc' = [wpc EXCEPT ![i] = "done"]
    /\ UNCHANGED <<provisionVars, startupVars, safetyVars, setupVars>>
    /\ UNCHANGED <<inputVars, fsFiles, fsDirs, mpc, idx, unfinished,
                   convert_count, thread_list, rc, progress_n, status,
                   linesLeft, spawned>>

\* return queue.get(): blocks while the queue is empty.
QueueGet(i) ==
    /\ wpc[i] = "get"
    /\ Len(queue) > 0
    /\ result' = [result EXCEPT ![i] = Head(queue)]
    /\ queue' = Tail(queue)
    /\ wpc' = [wpc EXCEPT ![i] = "done"]
    /\ UNCHANGED <<provisionVars, startupVars, safetyVars, setupVars>>
    /\ UNCHANGED <<inputVars, fsFiles, fsDirs, mpc, idx, unfinished,
                   convert_count, thread_list, rc, progress_n, status,
                   linesLeft, spawned>>

\* ------------------------------------------------------------ a second run
\* The state of a fresh process over the files F: nothing dispatched yet.
FreshProcess(F, budget) ==
    /\ mpc' = "check"
    /\ idx' = 1
    /\ queue' = <<>>
    /\ unfinished' = 0
    /\ convert_count' = 0
    /\ thread_list' = {}
    /\ wpc' = [i \in 1..Len(F) |-> "none"]
    /\ rc' = [i \in 1..Len(F) |-> -1]
    /\ result' = [i \in 1..Len(F) |-> 0]
    /\ progress_n' = [i \in 1..Len(F) |-> 0]
    /\ status' = [i \in 1..Len(F) |-> EmptyDict]
    /\ linesLeft' = [i \in 1..Len(F) |-> budget]
    /\ spawned' = 0

\* Every file of the run was skipped, or its transcoder exited with status 0
\* and its worker returned.
RunFullyCompleted ==
    /\ mpc = "reported"
    /\ \A i \in Positions : wpc[i] = "skipped" \/ (wpc[i] = "done" /\ rc[i] = 0)

\* The program is started again, on the same directories and with the same
\* settings, after a run that fully completed.
Rerun ==
    /\ RunFullyCompleted
    /\ run = "first"
    /\ run' = "second"
    /\ FreshProcess(files, lineBudget)
    /\ UNCHANGED <<provisionVars, startupVars, safetyVars, setupVars>>
    /\ UNCHANGED <<threads, convert, variant, files, vocab,
                   lineBudget, fsFiles, fsDirs>>

\* ------------------------------------------------------------------ Init
\* The program at the head of the dispatch loop: at most maxFiles files
\* discovered, the first of what glob found, some of them converted by an
\* earlier run.
InitBatch(found, maxFiles, threadChoices, variants, lines, budget) ==
    /\ threads \in threadChoices
    /\ convert \in {"mp3", "opus", SettingTrue}
    /\ variant \in variants
    /\ vocab = lines
    /\ lineBudget = budget
    /\ \E k \in 0..maxFiles : k <= Len(found) /\ files = SubSeq(found, 1, k)
    /\ \E D \in SUBSET (1..Len(files)) :
        fsFiles = {WrittenPath(files[i], convert) : i \in D}
    /\ fsDirs = {OutputDir} \cup {Parent(p) : p \in fsFiles}
    /\ mpc = "check"
    /\ idx = 1
    /\ queue = <<>>
    /\ unfinished = 0
    /\ convert_count = 0
    /\ thread_list = {}
    /\ wpc = [i \in 1..Len(files) |-> "none"]
    /\ rc = [i \in 1..Len(files) |-> -1]
    /\ result = [i \in 1..Len(files) |-> 0]
    /\ progress_n = [i \in 1..Len(files) |-> 0]
    /\ status = [i \in 1..Len(files) |-> EmptyDict]
    /\ linesLeft = [i \in 1..Len(files) |-> budget]
    /\ run = "first"
    /\ spawned = 0

\* The requested thread counts the dispatch-loop model runs with.
ThreadChoices == {1, 2}

NextBatch ==
    \/ MainSkip
    \/ MainPrepare
    \/ MainPut
    \/ MainLoopEnd
    \/ MainJoin
    \/ Rerun
    \/ \E i \in Positions : ProbeDone(i)
    \/ \E i \in Positions : ReadLine(i)
    \/ \E i \in Positions : TranscoderExit(i)
    \/ \E i \in Positions : UnwindExit(i)
    \/ \E i \in Positions : TaskDone(i)
    \/ \E i \in Positions : QueueGet(i)

vars ==
    <<batchVars, downloadVars, extractVars, startupVars, safetyVars,
      setupVars>>

\* The program before file discovery, running the functions of version v:
\* no file list, no queue, no worker.
BatchIdleAs(v) ==
    /\ threads = 1
    /\ convert = "mp3"
    /\ variant = v
    /\ vocab = {}
    /\ lineBudget = 0
    /\ files = <<>>
    /\ fsFiles = {}
    /\ fsDirs = {OutputDir}
    /\ mpc = "startup"
    /\ idx = 1
    /\ queue = <<>>
    /\ unfinished = 0
    /\ convert_count = 0
    /\ thread_list = {}
    /\ wpc = <<>>
    /\ rc = <<>>
    /\ result = <<>>
    /\ progress_n = <<>>
    /\ status = <<>>
    /\ linesLeft = <<>>
    /\ run = "first"
    /\ spawned = 0

BatchIdle == BatchIdleAs("mono")

Init ==
    /\ InitBatch(Discoverable, MaxFiles, ThreadChoices, {"mono"}, BatchLines, MaxLines)
    /\ DownloadIdle
    /\ ExtractIdle
    /\ StartupIdle
    /\ SafetyIdle
    /\ SetupIdle

\* The dispatch loop of metronome.py over up to MaxFiles files, the tools
\* being installed already.
Spec == Init /\ [][NextBatch]_vars

InitRunner ==
    /\ InitBatch(Discoverable, 1, {1}, {"mono", "lib"}, ProgressLines, MaxRunnerLines)
    /\ DownloadIdle
    /\ ExtractIdle
    /\ StartupIdle
    /\ SafetyIdle
    /\ SetupIdle

\* One task under either ffmpeg(), with every line the transcoder may write.
SpecRunner == InitRunner /\ [][NextBatch]_vars

\* The lines that are no `key=value` pair: one without `=`, one with two.
OddLines ==
    { <<"Conversion failed!", Newline>>,
      <<"speed", Eq, "out_time_us", Eq, "1000000", Newline>> }

InitOddLines ==
    /\ InitBatch(Discoverable, 1, {1}, {"mono", "lib"}, OddLines, MaxRunnerLines)
    /\ DownloadIdle
    /\ ExtractIdle
    /\ StartupIdle
    /\ SafetyIdle
    /\ SetupIdle

\* One task under either ffmpeg(), its transcoder writing such lines only.
SpecOddLines == InitOddLines /\ [][NextBatch]_vars

\* ------------------------------------------------ the batch under fairness
\* Most files the batch has in the model with fairness.
MaxLiveFiles == 2

\* The main thread's next statement.
MainThread ==
    MainSkip \/ MainPrepare \/ MainPut \/ MainLoopEnd \/ MainJoin

\* The next step of the worker of file i and of the processes it spawned.
Worker(i) ==
    /\ i \in Positions
    /\ \/ ProbeDone(i)
       \/ ReadLine(i)
       \/ TranscoderExit(i)
       \/ UnwindExit(i)
       \/ TaskDone(i)
       \/ QueueGet(i)

\* The main thread runs while it is not blocked, every worker thread runs
\* while it is not blocked, and every spawned process writes on to its end
\* and exits.
Fairness ==
    /\ WF_vars(MainThread)
    /\ \A i \in 1..MaxLiveFiles : WF_vars(Worker(i))

InitLive ==
    /\ InitBatch(Discoverable, MaxLiveFiles, ThreadChoices, {"mono", "lib"},
                 BatchLines, MaxLines)
    /\ DownloadIdle
    /\ ExtractIdle
    /\ StartupIdle
    /\ SafetyIdle
    /\ SetupIdle

\* The dispatch loop over files of one directory, every thread and every
\* process running on.
SpecLive == InitLive /\ [][NextBatch]_vars /\ Fairness

InitDownload ==
    /\ BatchIdle /\ InitDownloadCall /\ ExtractIdle /\ StartupIdle
    /\ SafetyIdle /\ SetupIdle

\* One call of download().
SpecDownload == InitDownload /\ [][NextDownload]_vars

NextExtract ==
    \/ Sniff
    \/ ExtractEntry
    \/ ExtractReturn

InitExtract ==
    /\ \E v \in {"mono", "lib"} : BatchIdleAs(v)
    /\ \E sys \in {"Linux", "Windows"} : SetupIdleOn(sys)
    /\ DownloadIdle /\ InitExtractCall /\ StartupIdle /\ SafetyIdle

\* One call of extract() on the ffmpeg archive.
SpecExtract == InitExtract /\ [][NextExtract]_vars

\* ------------------------------------------- any requested thread count
\* Largest number of files discovery returns in the thread-count model.
MaxThreadFiles == 2

\* The values --threads is given on the command line.
RequestedThreads == {"-1", "0", "1", "2"}

\* int(metronome_settings["threads"]) for a decimal literal
IntOf(tok) ==
    CASE tok = "-1" -> -1
      [] tok = "0" -> 0
      [] tok = "1" -> 1
      [] tok = "2" -> 2

InitThreads ==
    /\ InitBatch(Discoverable, MaxThreadFiles, {IntOf(r) : r \in RequestedThreads},
                 {"mono"}, BatchLines, MaxLines)
    /\ DownloadIdle
    /\ ExtractIdle
    /\ StartupIdle
    /\ SafetyIdle
    /\ SetupIdle

\* The dispatch loop under every requested thread count, zero and negative
\* ones included.
SpecThreads == InitThreads /\ [][NextBatch]_vars

InitSafety ==
    /\ BatchIdle /\ DownloadIdle /\ ExtractIdle /\ StartupIdle
    /\ InitSafetyCall /\ SetupIdle

\* One call of is_safe_filename or of is_safe_path.
SpecSafety == InitSafety /\ [][NextSafety]_vars

\* ------------------------------------------- an input tree that repeats
\* Largest number of files discovery returns in the repeated-path model.
MaxNestedFiles == 2

\* What glob returns for an input directory that holds, further down, its
\* own path and the output directory's path: the files that pass
\* is_safe_path.
DiscoverableNested ==
    SelectSeq(<< Join(Join(InputDir, Tail(InputDir)), <<"a", Dot, "flac">>),
                 Join(Join(InputDir, Tail(OutputDir)), <<"a", Dot, "flac">>) >>,
              LAMBDA f : is_safe_path(InputDir, f))

InitNested ==
    /\ InitBatch(DiscoverableNested, MaxNestedFiles, {2}, {"mono"}, BatchLines,
                 MaxLines)
    /\ DownloadIdle
    /\ ExtractIdle
    /\ StartupIdle
    /\ SafetyIdle
    /\ SetupIdle

\* The dispatch loop over that tree, with two worker slots.
SpecNested == InitNested /\ [][NextBatch]_vars

\* ------------------------------------------------- the startup sequence
\* Largest number of files discovery returns in the startup model.
MaxStartupFiles == 1

\* bool(value) of a settings value: a non-empty string or True.
Truthy(c) == c = SettingTrue \/ c /= ""

\* programs[t][system]["checksum"]
ChecksumOf(t) == IF t = "ffmpeg" THEN <<1>> ELSE <<2>>

\* The condition of a tool's block: the stage is enabled and the tool is
\* neither on the search path nor in bin_location.
Needed(t) ==
    /\ analyze \/ Truthy(convert)
    /\ IF t = "ffmpeg" THEN Truthy(convert) ELSE analyze
    /\ t \notin have

\* The main thread moves past the block of tool t.
PastBlock(t) ==
    IF t = "ffmpeg"
    THEN tool' = "chromaprint" /\ mpc' = "startup"
    ELSE tool' = "none" /\ mpc' = "discover"

\* The variables of the batch the startup code does not touch.
loopVars ==
    <<threads, convert, variant, files, fsFiles, fsDirs, idx, queue,
      unfinished, convert_count, thread_list, wpc, rc, result, progress_n,
      status, linesLeft, run, spawned, vocab, lineBudget>>

\* The block's condition is false: nothing is fetched.
BlockSkip ==
    /\ mpc = "startup"
    /\ tool \in Tools
    /\ ~Needed(tool)
    /\ PastBlock(tool)
    /\ UNCHANGED <<analyze, have, provisions, outcome>>
    /\ UNCHANGED <<loopVars, provisionVars, safetyVars, setupVars>>

\* download(programs[tool][system]["url"], programs[tool][system]["checksum"])
BlockDownload ==
    /\ mpc = "startup"
    /\ tool \in Tools
    /\ Needed(tool)
    /\ mpc' = "download"
    /\ provisions' = [provisions EXCEPT ![tool] = provisions[tool] + 1]
    /\ dl_pc' = "get"
    /\ dl_checksum' = ChecksumOf(tool)
    /\ dl_header' = <<>>
    /\ dl_size' = 0
    /\ dl_file' = <<>>
    /\ dl_n' = 0
    /\ dl_result' = "none"
    /\ dl_returned' = <<>>
    /\ dl_message' = NoMessage
    /\ UNCHANGED <<analyze, have, tool, outcome>>
    /\ UNCHANGED <<loopVars, extractVars, safetyVars, setupVars>>

\* The file types magic.from_buffer reports in the startup model.
SniffedTypes == {"application/x-xz", "application/zip", "application/octet-stream"}

\* download() is over: its exception ends the program, or its bytes are
\* passed to extract(archive, bin_location, needles).
DownloadReturned ==
    /\ mpc = "download"
    /\ dl_pc = "done"
    /\ dl_pc' = "idle"
    /\ dl_checksum' = <<>>
    /\ dl_header' = <<>>
    /\ dl_size' = 0
    /\ dl_file' = <<>>
    /\ dl_n' = 0
    /\ dl_result' = "none"
    /\ dl_returned' = <<>>
    /\ dl_message' = NoMessage
    /\ IF dl_result = "bytes"
       THEN /\ mpc' = "extract"
            /\ outcome' = outcome
            /\ ex_pc' = "sniff"
            /\ ex_type' \in SniffedTypes
            /\ ex_entries' \in Archives
            /\ ex_i' = 1
            /\ ex_written' = {}
            /\ ex_exec' = {}
            /\ ex_result' = "none"
            /\ UNCHANGED ex_links
       ELSE /\ mpc' = "fatal"
            /\ outcome' = [outcome EXCEPT ![tool] = dl_result]
            /\ UNCHANGED extractVars
    /\ UNCHANGED <<analyze, have, tool, provisions>>
    /\ UNCHANGED <<loopVars, safetyVars, setupVars>>

\* What the caller makes of the way extract() ended.
ExtractOutcome(r) ==
    IF r = "True" THEN "installed"
    ELSE IF r = "False" THEN "Unrecognized"
    ELSE r

\* A caller that takes every return of extract() for a success.
ExtractReturned_IgnoresFalse ==
    /\ mpc = "extract"
    /\ ex_pc = "done"
    /\ ex_pc' = "idle"
    /\ ex_type' = "application/octet-stream"
    /\ ex_entries' = <<>>
    /\ ex_i' = 1
    /\ ex_written' = {}
    /\ ex_exec' = {}
    /\ ex_result' = "none"
    /\ outcome' = [outcome EXCEPT ![tool] = ExtractOutcome(ex_result)]
    /\ IF ex_result \in {"True", "False"}
       THEN PastBlock(tool)
       ELSE mpc' = "fatal" /\ tool' = tool
    /\ UNCHANGED <<analyze, have, provisions, ex_links>>
    /\ UNCHANGED <<loopVars, downloadVars, safetyVars, setupVars>>

\* extract() is over: `if not extract(...): raise RuntimeError`, and the
\* ValueError of a refused member ends the program as well.
ExtractReturned ==
    /\ mpc = "extract"
    /\ ex_pc = "done"
    /\ ex_pc' = "idle"
    /\ ex_type' = "application/octet-stream"
    /\ ex_entries' = <<>>
    /\ ex_i' = 1
    /\ ex_written' = {}
    /\ ex_exec' = {}
    /\ ex_result' = "none"
    /\ outcome' = [outcome EXCEPT ![tool] = ExtractOutcome(ex_result)]
    /\ IF ex_result = "True"
       THEN PastBlock(tool)
       ELSE mpc' = "fatal" /\ tool' = tool
    /\ UNCHANGED <<analyze, have, provisions, ex_links>>
    /\ UNCHANGED <<loopVars, downloadVars, safetyVars, setupVars>>

\* File discovery, and the head of the dispatch loop.
Discover ==
    /\ mpc = "discover"
    /\ \E k \in 0..MaxStartupFiles : files' = SubSeq(Discoverable, 1, k)
    /\ \E D \in SUBSET (1..Len(files')) :
        fsFiles' = {WrittenPath(files'[i], convert) : i \in D}
    /\ fsDirs' = {OutputDir} \cup {Parent(p) : p \in fsFiles'}
    /\ FreshProcess(files', lineBudget)
    /\ UNCHANGED <<threads, convert, variant, vocab, lineBudget, run>>
    /\ UNCHANGED <<provisionVars, startupVars, safetyVars, setupVars>>

\* The main thread at place pc of the code before file discovery, with some
\* of the tools installed.
InitStartupAt(pc) ==
    /\ threads = 1
    /\ \/ convert \in {"mp3", "opus"} /\ analyze \in BOOLEAN
       \/ convert = SettingTrue /\ analyze = TRUE
    /\ variant = "mono"
    /\ vocab = BatchLines
    /\ lineBudget = MaxLines
    /\ files = <<>>
    /\ fsFiles = {}
    /\ fsDirs = {OutputDir}
    /\ mpc = pc
    /\ idx = 1
    /\ queue = <<>>
    /\ unfinished = 0
    /\ convert_count = 0
    /\ thread_list = {}
    /\ wpc = <<>>
    /\ rc = <<>>
    /\ result = <<>>
    /\ progress_n = <<>>
    /\ status = <<>>
    /\ linesLeft = <<>>
    /\ run = "first"
    /\ spawned = 0
    /\ have \in SUBSET Tools
    /\ tool = "ffmpeg"
    /\ provisions = [t \in Tools |-> 0]
    /\ outcome = [t \in Tools |-> "none"]
    /\ DownloadIdle
    /\ ex_pc = "idle"
    /\ ex_type = "application/octet-stream"
    /\ ex_entries = <<>>
    /\ ex_i = 1
    /\ ex_links \in {{}, {Join(bin_location, <<"ffprobe">>)}}
    /\ ex_written = {}
    /\ ex_exec = {}
    /\ ex_result = "none"
    /\ SafetyIdle

\* The program at the startup block.
InitStartup == InitStartupAt("startup") /\ SetupIdle

NextStartup ==
    \/ BlockSkip
    \/ BlockDownload
    \/ Request
    \/ RecvBlock
    \/ StreamBroken
    \/ Finish
    \/ DownloadReturned
    \/ Sniff
    \/ ExtractEntry
    \/ ExtractReturn
    \/ ExtractReturned
    \/ Discover
    \/ MainSkip
    \/ MainPrepare
    \/ MainPut
    \/ MainLoopEnd
    \/ MainJoin
    \/ \E i \in Positions : ProbeDone(i)
    \/ \E i \in Positions : ReadLine(i)
    \/ \E i \in Positions : TranscoderExit(i)
    \/ \E i \in Positions : UnwindExit(i)
    \/ \E i \in Positions : TaskDone(i)
    \/ \E i \in Positions : QueueGet(i)

\* The program from the startup block to the report of the batch.
SpecStartup == InitStartup /\ [][NextStartup]_vars

\* --------------------------------------------- the host and the two roots
\* The hosts platform.system() names in the root-check model.
Hosts == {"Linux", "Darwin"}

\* The values --input is given: the default, a root above the working
\* directory, and a root in /cwd2, a directory whose name starts with that
\* of the working directory.
RequestedInputs ==
    { <<"input">>,
      <<Dot, Dot, Sep, "input">>,
      <<Sep, "cwd", "2", Sep, "input">> }

\* The values --output is given.
RequestedOutputs ==
    { <<"output">>,
      <<"output", Sep, Dot, Dot, Sep, Dot, Dot, Sep, "etc">>,
      <<Sep, "etc", Sep, "output">> }

\* make_dir with a prefix test that leaves out the separator.
make_dir_refuses_NoSeparator(directory) ==
    LET dir == AbsPath(directory)
        base_dir == AbsPath(current_working_dir)
    IN  ~StartsWith(dir, base_dir)

\* make_dir raises ValueError: the absolute form of directory neither
\* starts with the working directory and a separator nor is it.
make_dir_refuses(directory) ==
    LET dir == AbsPath(directory)
        base_dir == AbsPath(current_working_dir)
    IN  ~StartsWith(dir, base_dir \o <<Sep>>) /\ dir /= base_dir

\* `if system != "Linux" and system != "Windows": raise RuntimeError`
PlatformCheck ==
    /\ mpc = "boot"
    /\ mpc' = IF system /= "Linux" /\ system /= "Windows"
              THEN "fatal" ELSE "make_input"
    /\ UNCHANGED <<loopVars, provisionVars, startupVars, safetyVars, setupVars>>

\* The argument of the make_dir call the main thread is at.
MakeDirArg ==
    IF mpc = "make_input" THEN req_input
    ELSE IF mpc = "make_output" THEN req_output
    ELSE <<"bin">>

\* The place after the make_dir call the main thread is at.
AfterMakeDir ==
    IF mpc = "make_input" THEN "make_output"
    ELSE IF mpc = "make_output" THEN "make_bin"
    ELSE "startup"

\* make_dir(directory): the directory is refused, or it is made when it
\* does not exist, which os.makedirs can fail to do.
MakeDir ==
    /\ mpc \in {"make_input", "make_output", "make_bin"}
    /\ IF make_dir_refuses(MakeDirArg)
       THEN mpc' = "fatal" /\ made' = made
       ELSE \/ mpc' = AfterMakeDir /\ made' = made \cup {AbsPath(MakeDirArg)}
            \/ mpc' = "fatal" /\ made' = made
    /\ UNCHANGED <<system, req_input, req_output, discoveryVars>>
    /\ UNCHANGED <<loopVars, provisionVars, startupVars, safetyVars>>

\* The program at its first statement, on some host, with some roots.
InitBoot ==
    /\ InitStartupAt("boot")
    /\ system \in Hosts
    /\ req_input \in RequestedInputs
    /\ req_output \in RequestedOutputs
    /\ made = {}
    /\ globbed = <<>>
    /\ gidx = 1

NextBoot ==
    \/ PlatformCheck
    \/ MakeDir
    \/ NextStartup

\* The program from its first statement to the report of the batch.
SpecBoot == InitBoot /\ [][NextBoot]_vars

\* ------------------------------------------------- the discovery filter
\* Most paths glob returns in the discovery model.
MaxGlobbed == 3

\* The .flac files that can lie under the input root: an ordinary name, a
\* name with a forbidden character, a name that starts with a space, a name
\* with a tabulator, and, one directory down, a name with a delete character.
RawPaths ==
    { Join(InputDir, <<"a", Dot, "flac">>),
      Join(InputDir, <<"<", Dot, "flac">>),
      Join(InputDir, <<" ", "a", Dot, "flac">>),
      Join(InputDir, <<"TAB", Dot, "flac">>),
      Join(Join(InputDir, <<"sub">>), <<"DEL", Dot, "flac">>) }

\* What glob(<input>/**/*.flac) can return: some of the files, in some order.
GlobResults ==
    { g \in UNION {[1..n -> RawPaths] : n \in 0..MaxGlobbed} :
        \A i, j \in 1..Len(g) : i /= j => g[i] /= g[j] }

\* A candidate the loop appends whatever its name is.
Appended_PathOnly(file) == is_safe_path(InputDir, file)

\* The two tests a candidate passes before files.append(file).
Appended(file) ==
    /\ is_safe_path(InputDir, file)
    /\ is_safe_filename(PathName(file))

\* The discovery loop over what glob returned, and the head of the dispatch
\* loop.
GlobAndFilter ==
    /\ mpc = "glob"
    /\ \E g \in GlobResults : globbed' = g
    /\ gidx' = Len(globbed') + 1
    /\ files' = SelectSeq(globbed', Appended)
    /\ \E D \in SUBSET (1..Len(files')) :
        fsFiles' = {WrittenPath(files'[i], convert) : i \in D}
    /\ fsDirs' = {OutputDir} \cup {Parent(p) : p \in fsFiles'}
    /\ FreshProcess(files', lineBudget)
    /\ UNCHANGED <<threads, convert, variant, vocab, lineBudget, run>>
    /\ UNCHANGED <<bootVars, provisionVars, startupVars, safetyVars>>

\* The program at the discovery loop, the tools installed.
InitDiscovery ==
    /\ InitStartupAt("glob")
    /\ SetupIdle
    /\ convert = "mp3"
    /\ analyze = FALSE
    /\ have = Tools
    /\ ex_links = {}

NextDiscovery ==
    \/ GlobAndFilter
    \/ MainSkip
    \/ MainPrepare
    \/ MainPut
    \/ MainLoopEnd
    \/ MainJoin
    \/ \E i \in Positions : ProbeDone(i)
    \/ \E i \in Positions : ReadLine(i)
    \/ \E i \in Positions : TranscoderExit(i)
    \/ \E i \in Positions : UnwindExit(i)
    \/ \E i \in Positions : TaskDone(i)
    \/ \E i \in Positions : QueueGet(i)

\* The program from file discovery to the report of the batch.
SpecDiscovery == InitDiscovery /\ [][NextDiscovery]_vars

\* ============================================================== the claims
NumAlive == Cardinality({i \in Positions : TranscoderAlive(i)})

\* C1: in every reachable state of a batch run whose queue has capacity
\* N = threads, under every interleaving of the dispatch loop and the
\* workers, at most N transcoder processes have been spawned and have not
\* yet exited.
C1_ConcurrencyBound == NumAlive <= threads

\* Two transcoders are alive under capacity 2 while the loop waits in put()
\* with a third file.
C1_Witness ==
    /\ threads = 2
    /\ NumAlive = 2
    /\ mpc = "put"
    /\ ~CanPut(queue, threads)

\* The dispatch loop has left the for loop by an exception.
BatchAborted == mpc = "aborted"

\* The dispatch loop waits in put() for a slot that no live worker will free.
DispatchStuck ==
    /\ mpc = "put"
    /\ ~CanPut(queue, threads)
    /\ \A i \in thread_list : Ended(i)

\* C6: an exception raised while preparing or running one task is caught at
\* that task's boundary: no worker thread dies of it, the dispatch loop is
\* not left by it, and the loop is never left waiting for a slot that the
\* failed task still holds.
C6_ExceptionsStayInTask ==
    /\ ~BatchAborted
    /\ ~DispatchStuck
    /\ \A i \in Positions : wpc[i] /= "raised"

\* C7: once the workers are joined, the reported count of converted files is
\* the number of tasks whose transcoder exited with status 0.
C7_ReportedCountsExact ==
    mpc = "reported" =>
        convert_count = Cardinality({i \in Positions : rc[i] = 0})

\* C8: a second run after a first run that fully completed spawns no
\* transcoder and skips every discovered file.
C8_SecondRunIdempotent ==
    run = "second" =>
        /\ spawned = 0
        /\ thread_list = {}
        /\ (mpc = "reported" => \A i \in Positions : wpc[i] = "skipped")

\* C9: the value a task's bar displays never decreases from one update to
\* the next, whatever lines its transcoder writes.
C9_ProgressMonotone ==
    [][\A i \in Positions :
          (wpc[i] = "reading" /\ run' = run) => progress_n'[i] >= progress_n[i]]_vars

\* ffmpeg() returned a value that is true in a boolean context.
ReportsSuccess(i) == wpc[i] = "done" /\ result[i] /= 0

\* C10: a worker that has returned reports success exactly when its
\* transcoder exited with status 0.
C10_SuccessIffExitZero ==
    \A i \in Positions :
        wpc[i] = "done" => (ReportsSuccess(i) <=> rc[i] = 0)

\* A path lies strictly inside a directory: the directory's segments are a
\* proper prefix of the path's, and the path has no ".." segment.
InsideDir(p, dir) ==
    LET ps == Segments(p)
        ds == Segments(dir)
    IN  /\ Len(ps) > Len(ds)
        /\ SubSeq(ps, 1, Len(ds)) = ds
        /\ \A k \in 1..Len(ps) : ps[k] /= DotDot
        /\ Len(p) > 0 /\ Head(p) = Sep

\* C2: download returns the bytes only when their digest equals the
\* expected checksum; when the digests differ it ends in an error, and the
\* checksum error names the expected and the found digest.
C2_ChecksumGate ==
    dl_pc = "done" =>
        /\ dl_result = "bytes" =>
               /\ Sha256Hex(dl_file) = dl_checksum
               /\ dl_returned = dl_file
        /\ Sha256Hex(dl_file) /= dl_checksum =>
               /\ dl_result \in {"DownloadError", "TransportError",
                                 "SizeMismatch", "ChecksumMismatch"}
               /\ dl_returned = <<>>
        /\ dl_result = "ChecksumMismatch" =>
               /\ dl_message.expected = dl_checksum
               /\ dl_message.found = Sha256Hex(dl_file)
               /\ dl_message.found /= dl_message.expected
        /\ (Sha256Hex(dl_file) /= dl_checksum
                /\ dl_result \notin {"DownloadError", "TransportError", "SizeMismatch"})
              => dl_result = "ChecksumMismatch"

\* A complete body whose digest differs from a given checksum was refused.
C2_Witness ==
    /\ dl_pc = "done"
    /\ dl_result = "ChecksumMismatch"
    /\ Len(dl_file) = 2
    /\ dl_checksum /= <<>>

\* C3: every file extract opens for writing lies strictly inside
\* bin_location, whatever the members' paths and whatever links exist there.
C3_WritesStayInside ==
    \A p \in ex_written : InsideDir(p, bin_location)

\* A member reached through ../../ was selected and written, in a directory
\* that holds a link leading outside.
C3_Witness ==
    /\ ex_pc = "done"
    /\ ex_written /= {}
    /\ ex_links /= {}
    /\ \E k \in 1..Len(ex_entries) :
          ex_entries[k] = <<Dot, Dot, Sep, Dot, Dot, Sep, "etc", Sep, "ffmpeg">>

\* os.path.join of the destination and a member's own path, resolved.
MemberTarget(path) ==
    Resolve(IF Len(path) > 0 /\ Head(path) = Sep
            THEN path
            ELSE Join(bin_location, path), {})

\* The member's own path leads outside the destination.
EscapesDestination(path) == ~InsideDir(MemberTarget(path), bin_location)

\* C4: when the archive holds a wanted member whose path leads outside the
\* destination, extract ends in the PathTraversal error.
C4_TraversalMemberFails ==
    (/\ ex_pc = "done"
     /\ IsTar(ex_type) \/ IsZip(ex_type)
     /\ \E k \in 1..Len(ex_entries) :
            /\ Selects(ex_type, ex_entries[k])
            /\ EscapesDestination(ex_entries[k]))
    => ex_result = "PathTraversal"

\* C5: when extract ends in the PathTraversal error, no member of the
\* archive has been written.
C5_TraversalFailureAtomic ==
    ex_result = "PathTraversal" => ex_written = {}

\* The capacity a requested thread count stands for: the count, at least 1.
EffectiveCapacity == IF threads >= 1 THEN threads ELSE 1

\* C11: for every requested thread count, zero and negative ones included,
\* the scheduler's capacity is a finite number of at least 1: the queue is
\* bounded, and the transcoders alive never outnumber that capacity.
C11_CapacityAtLeastOne ==
    /\ Len(queue) <= EffectiveCapacity
    /\ NumAlive <= EffectiveCapacity

\* An ASCII control character: the codes 0 to 31, and 127.
IsAsciiControl(c) == Ord(c) < 32 \/ Ord(c) = 127

\* The names the contract rejects.
MustReject(name) ==
    \/ \E i \in 1..Len(name) : name[i] \in Forbidden
    \/ \E i \in 1..Len(name) : IsAsciiControl(name[i])
    \/ name = <<>>
    \/ Len(name) > 0 /\ name[1] \in {" ", "."}
    \/ Len(name) > 0 /\ name[Len(name)] \in {" ", "."}

\* C12: is_safe_filename returns false for every name that holds a forbidden
\* character or an ASCII control character, begins or ends with a space or
\* a dot, or is empty, and true for every other name.
C12_FilenameContract ==
    (ps_fn = "is_safe_filename" /\ ps_done) => (ps_result <=> ~MustReject(ps_name))

\* The segments of a path's absolute form, the working directory supplied
\* for a relative one, with "." dropped and ".." applied.
Canonical(p) ==
    Normalize(<<>>, Segments(IF Len(p) > 0 /\ Head(p) = Sep
                             THEN p
                             ELSE Join(current_working_dir, p)))

\* The path is the directory or lies inside it.
IsOrLiesInside(p, dir) ==
    LET ps == Canonical(p)
        ds == Canonical(dir)
    IN  Len(ds) <= Len(ps) /\ SubSeq(ps, 1, Len(ds)) = ds

\* C13: is_safe_path returns true exactly when the absolute form of the
\* candidate is the base directory or lies inside it.
C13_SafePathContract ==
    (ps_fn = "is_safe_path" /\ ps_done) =>
        (ps_result <=> IsOrLiesInside(ps_path, ps_base))

\* C14: when the response declared a content length and the number of bytes
\* received differs from it, download ends in the size-mismatch error and
\* returns no bytes, whatever the digest of what was received.
C14_SizeGate ==
    (/\ dl_pc = "done"
     /\ dl_result \notin {"DownloadError", "TransportError"}
     /\ dl_header /= <<>>
     /\ Len(dl_file) /= dl_header[1])
    => (dl_result = "SizeMismatch" /\ dl_returned = <<>>)

\* A worker thread has been started.
WorkerStarted == thread_list /= {} \/ \E i \in Positions : wpc[i] \notin {"none", "skipped"}

\* C15: extract returns False for bytes that are neither a tar-family nor a
\* zip archive, having written nothing, and the startup code then ends the
\* program: no worker is started after it.
C15_UnrecognizedArchive ==
    /\ (ex_pc = "done"
           /\ ex_type \notin {"application/x-xz", "application/gzip", "application/zip"})
          => (ex_result = "False" /\ ex_written = {})
    /\ (\E t \in Tools : outcome[t] = "Unrecognized")
          => (mpc = "fatal" /\ ~WorkerStarted /\ spawned = 0)

\* The startup code has ended the program over an archive of no known type.
C15_Witness ==
    /\ outcome["ffmpeg"] = "Unrecognized"
    /\ mpc = "fatal"

\* The ways a tool's provisioning fails.
ProvisionFailures ==
    {"DownloadError", "TransportError", "SizeMismatch", "ChecksumMismatch",
     "PathTraversal", "Unrecognized"}

\* C16: each tool is provisioned at most once; while a download or an
\* extraction runs no worker has been started; every worker starts after
\* the startup block is over; and after a failed provisioning no worker is
\* ever started.
C16_ProvisionBeforeWorkers ==
    /\ \A t \in Tools : provisions[t] <= 1
    /\ (dl_pc /= "idle" \/ ex_pc /= "idle" \/ mpc \in {"startup", "download", "extract"})
          => ~WorkerStarted
    /\ WorkerStarted =>
          /\ tool = "none"
          /\ \A t \in Tools : outcome[t] \in {"none", "installed"}
    /\ (\E t \in Tools : outcome[t] \in ProvisionFailures)
          => (mpc = "fatal" /\ ~WorkerStarted)

\* A worker runs after both tools were fetched and unpacked.
C16_Witness ==
    /\ \A t \in Tools : provisions[t] = 1 /\ outcome[t] = "installed"
    /\ \E i \in Positions : wpc[i] = "reading"

\* The slots held: the items put on the queue and not yet got.
HeldSlots == Len(queue)

\* C17: every slot taken for a dispatched task is given back when the
\* task's worker ends, however it ends: the slots held are as many as the
\* workers started and not ended, and none is held once the workers are
\* joined.
C17_SlotsReleased ==
    /\ HeldSlots = Cardinality({i \in thread_list : ~Ended(i)})
    /\ mpc = "reported" => HeldSlots = 0

\* C18: the path the dispatch loop tested for a task is the path its
\* transcoder is told to write, under every output-format setting.
C18_DestinationDerivedOnce ==
    \A i \in Positions :
        TranscoderAlive(i) =>
            CheckedPath(files[i], convert) = WrittenPath(files[i], convert)

\* C19: no two transcoders alive at once are told to write the same path.
C19_DistinctDestinations ==
    \A i, j \in Positions :
        (i /= j /\ TranscoderAlive(i) /\ TranscoderAlive(j)) =>
            WrittenPath(files[i], convert) /= WrittenPath(files[j], convert)

\* The main thread takes a step of the dispatch loop on the file it is at.
LoopStep ==
    /\ mpc = "check"
    /\ idx <= Len(files)
    /\ run' = run
    /\ mpc' /= mpc \/ idx' /= idx

\* C20: when the file a task would write exists as the loop reaches the
\* task, the task is skipped: no slot is taken, no thread started, no
\* process spawned, no directory made, and the count left as it was.
C20_ExistingDestinationSkipped ==
    [][(LoopStep /\ WrittenPath(files[idx], convert) \in fsFiles) =>
          /\ wpc'[idx] = "skipped"
          /\ mpc' = "check"
          /\ queue' = queue
          /\ thread_list' = thread_list
          /\ spawned' = spawned
          /\ fsDirs' = fsDirs
          /\ convert_count' = convert_count]_vars

\* C21: in every state in which the batch result has been reported, every
\* dispatched worker has ended and no transcoder of the batch is alive.
C21_ReportAfterWorkers ==
    mpc = "reported" =>
        /\ \A i \in thread_list : Ended(i)
        /\ \A i \in Positions : ~TranscoderAlive(i)
        /\ \A i \in Positions : wpc[i] \in {"skipped", "done", "raised"}

\* The report is out after two workers ran, one of which died of an
\* exception while its transcoder was running.
C21_Witness ==
    /\ mpc = "reported"
    /\ Cardinality(thread_list) = 2
    /\ \E i \in thread_list : wpc[i] = "raised" /\ rc[i] >= 0

\* C30: a worker at task_done() finds an unfinished item and a worker at
\* get() finds the queue non-empty: the workers at their release step are
\* never more than the items, task_done() never raises, get() never blocks.
C30_ReleaseNeverFails ==
    /\ Cardinality({i \in Positions : wpc[i] = "closing"}) <= unfinished
    /\ Cardinality({i \in Positions : wpc[i] \in {"closing", "get"}}) <= Len(queue)
    /\ \A i \in Positions : wpc[i] = "closing" => unfinished > 0
    /\ \A i \in Positions : wpc[i] = "get" => Len(queue) > 0

\* Two workers are at their release step at once, one at task_done() and
\* one at get().
C30_Witness ==
    \E i, j \in Positions :
        /\ wpc[i] = "closing"
        /\ wpc[j] = "get"
        /\ Len(queue) = 2

\* The entries the contract selects: the stem is wanted and the extension is
\* empty or the executable one.
ContractSelects(path) ==
    /\ Stem(PathName(path)) \in Needles
    /\ Suffix(PathName(path)) \in {<<>>, <<Dot, "exe">>}

\* C22: whichever reader runs, extract writes exactly the entries whose stem
\* is wanted and whose extension is empty or the executable one: the tar
\* and the zip reader select alike.
C22_ReadersSelectAlike ==
    (ex_pc = "done" /\ ex_result = "True" /\ ex_links = {}) =>
        ex_written =
            {Join(bin_location, PathName(ex_entries[k])) :
                k \in {n \in 1..Len(ex_entries) : ContractSelects(ex_entries[n])}}

\* C27: on a Linux host every file extract has written has the executable
\* bit set, under either reader and in either version of extract.
C27_WrittenFilesExecutable ==
    (system = "Linux" /\ ex_pc \in {"loop", "done"}) => ex_written \subseteq ex_exec

\* The root lies outside the working directory.
OutsideWorkingDir(d) == ~IsOrLiesInside(d, current_working_dir)

\* No work has begun: no download, no extraction, no discovery, no worker.
NoWorkBegun ==
    /\ \A t \in Tools : provisions[t] = 0
    /\ dl_pc = "idle"
    /\ ex_pc = "idle"
    /\ ex_written = {}
    /\ files = <<>>
    /\ ~WorkerStarted
    /\ mpc \in {"boot", "make_input", "make_output", "fatal"}

\* C23: on an unsupported host, or with an input or output root outside
\* the working directory, the program never gets past the checks: nothing
\* is downloaded, extracted, discovered or started, the unsafe root is not
\* created, and on an unsupported host no directory is created at all.
C23_AbortBeforeWork ==
    /\ (system \notin {"Linux", "Windows"}
           \/ OutsideWorkingDir(req_input) \/ OutsideWorkingDir(req_output))
          => NoWorkBegun
    /\ system \notin {"Linux", "Windows"} => made = {}
    /\ OutsideWorkingDir(req_input) => made = {}
    /\ OutsideWorkingDir(req_output) => AbsPath(req_output) \notin made

\* The input root was made, and the program ended over an output root
\* under /etc.
C23_Witness ==
    /\ mpc = "fatal"
    /\ req_output = <<Sep, "etc", Sep, "output">>
    /\ made = {InputDir}

\* C24: every file of the batch passed is_safe_path against the input root
\* and is_safe_filename on its base name, and a candidate that fails either
\* test is no file of the batch: no position of the dispatch loop, and so no
\* dispatch, no skip and no count, is for it.
Failing(file) ==
    \/ ~is_safe_path(InputDir, file)
    \/ ~is_safe_filename(PathName(file))

C24_OnlySafeFilesInBatch ==
    /\ \A i \in 1..Len(files) : ~Failing(files[i])
    /\ \A j \in 1..Len(globbed) :
        Failing(globbed[j]) => \A i \in 1..Len(files) : files[i] /= globbed[j]
    /\ thread_list \subseteq 1..Len(files)
    /\ \A i \in 1..Len(files) :
        wpc[i] /= "none" => \E j \in 1..Len(globbed) :
            globbed[j] = files[i] /\ ~Failing(globbed[j])

\* The batch was reported; glob had returned a name with a forbidden
\* character and an ordinary name, and only the ordinary one was dispatched.
C24_Witness ==
    /\ mpc = "reported"
    /\ \E j \in 1..Len(globbed) : Failing(globbed[j])
    /\ Len(files) = 1
    /\ Len(globbed) = 3
    /\ thread_list = {1}
    /\ wpc[1] = "done"

\* line.split("=", 1): the line cut at its first `=`, or whole when it has
\* none.
SplitFirst(line) ==
    IF ~Contains(line, Eq) THEN <<line>>
    ELSE LET i == CHOOSE k \in 1..Len(line) :
                    line[k] = Eq /\ \A j \in 1..(k - 1) : line[j] /= Eq
         IN  <<SubSeq(line, 1, i - 1), SubSeq(line, i + 1, Len(line))>>

\* C25: a line is split on its first `=` only, and a line that does not
\* give two parts is ignored: whatever a task's dict holds is the key and
\* the rest of a line cut at its first `=`, and a transcoder that writes
\* only lines without `=` or with two of them moves no bar and makes no
\* worker raise.
C25_OddLinesIgnored ==
    \A i \in Positions :
        /\ \A k \in DOMAIN status[i] :
            \E line \in vocab : SplitFirst(line) = <<k, status[i][k]>>
        /\ wpc[i] /= "unwind"
        /\ progress_n[i] = 0

\* C26: no line makes the worker raise, and the bar of a task whose dict
\* holds a microsecond count shows the seconds of that count.
C26_ProgressFollowsOutTime ==
    \A i \in Positions :
        /\ wpc[i] /= "unwind"
        /\ (wpc[i] = "reading" /\ OutTimeKey \in DOMAIN status[i]
                /\ IsFloat(status[i][OutTimeKey]))
              => progress_n[i] = RoundSeconds(FloatOf(status[i][OutTimeKey]))

\* C28: when every thread runs on and every spawned process exits, the
\* batch reaches its final report: the dispatch loop has gone through every
\* file, and every worker it started has ended.
C28_BatchReachesReport ==
    <>(/\ mpc = "reported"
       /\ idx > Len(files)
       /\ \A i \in thread_list : Ended(i))

\* C29 as stated: a call of download without a checksum always ends in the
\* checksum-mismatch error.
C29_AlwaysChecksumError ==
    (dl_pc = "done" /\ dl_checksum = <<>>) =>
        (dl_result = "ChecksumMismatch" /\ dl_returned = <<>>)

\* C29: a call of download without a checksum never returns bytes: it ends
\* in an error, which is the checksum-mismatch error whenever the response
\* was accepted, the body arrived whole and the size test passed.
C29_NoBytesWithoutChecksum ==
    (dl_pc = "done" /\ dl_checksum = <<>>) =>
        /\ dl_result /= "bytes"
        /\ dl_returned = <<>>
        /\ dl_result \in {"DownloadError", "TransportError", "SizeMismatch",
                          "ChecksumMismatch"}
        /\ dl_result = "SizeMismatch" => SizeRejected(dl_size, dl_n)
        /\ dl_result = "ChecksumMismatch" =>
               /\ ~SizeRejected(dl_size, dl_n)
               /\ dl_message.expected = <<>>
               /\ dl_message.found = Sha256Hex(dl_file)

\* A body of two blocks arrived whole for a call without a checksum and was
\* refused by the checksum test.
C29_Witness ==
    /\ dl_pc = "done"
    /\ dl_checksum = <<>>
    /\ dl_result = "ChecksumMismatch"
    /\ Len(dl_file) = 2
    /\ dl_returned = <<>>

====
